---- MODULE Spec2Model ----
\* Session model of the bfxr2 MCP server: the CallTool request handler of
\* src/src/server.js, the BfxrWrapper methods it calls, the process-wide
\* Math.random slot, and the files written by saveWavFile.
\*
\* Numbers with a fractional part are kept in thousandths (0.7 is 700,
\* 0.03 is 30); waveType is an integer and is kept as it is.  Values drawn
\* from a random source are kept as numerators over LcgMod.
EXTENDS Integers, Sequences, FiniteSets, TLC

VARIABLES
  params,      \* this.bfxr.params: the engine's parameter state
  sound,       \* this.bfxr.sound: <<>> while null, <<handle>> once rendered
  mathRandom,  \* the function installed in the global Math.random slot
  files,       \* file system: path -> <<>> (absent) or <<bytes>>
  dirs,        \* directories that exist
  response,    \* what the CallTool handler returned for the last request
  call,        \* the last request: name and arguments
  pre,         \* params, sound, mathRandom, files as they were before the last request
  trace,       \* what happened inside the last request (engine calls, throws)
  seededLog,   \* per seed: the first sound rendered by a randomize with that seed
  everRendered, \* some generation has rendered a sound since the process started
  calls,       \* number of requests received so far
  inbox,       \* requests read from the transport, not yet given to the handler
  handlers,    \* invocations of the CallTool handler that have not returned
  done         \* the last invocation that returned

vars ==
  <<params, sound, mathRandom, files, dirs, response, call, pre, trace,
    seededLog, everRendered, calls, inbox, handlers, done>>

-----------------------------------------------------------------------------
\* Bounds of the model.

MaxCalls == 3

-----------------------------------------------------------------------------
\* Parameter schema (inputSchema of create_custom_sound).

Fields ==
  <<"waveType", "frequency_start", "frequency_slide", "attackTime",
    "sustainTime", "decayTime", "vibratoDepth", "vibratoSpeed">>

FieldSet == {Fields[i] : i \in 1..Len(Fields)}

RangeLo(key) ==
  CASE key = "waveType" -> 0
    [] key = "frequency_start" -> 0
    [] key = "frequency_slide" -> -500
    [] key = "attackTime" -> 0
    [] key = "sustainTime" -> 0
    [] key = "decayTime" -> 30
    [] key = "vibratoDepth" -> 0
    [] key = "vibratoSpeed" -> 0

RangeHi(key) ==
  CASE key = "waveType" -> 11
    [] key = "frequency_start" -> 1000
    [] key = "frequency_slide" -> 500
    [] key = "attackTime" -> 1000
    [] key = "sustainTime" -> 1000
    [] key = "decayTime" -> 1000
    [] key = "vibratoDepth" -> 1000
    [] key = "vibratoSpeed" -> 1000

InRange(key, value) == RangeLo(key) <= value /\ value <= RangeHi(key)

\* An entry of an argument object is a <<key, value>> pair; an object is the
\* sequence of its entries in insertion order (the order of Object.entries).
EntryValid(e) == e[1] \in FieldSet /\ InRange(e[1], e[2])

AllValid(entries) == \A i \in 1..Len(entries) : EntryValid(entries[i])

-----------------------------------------------------------------------------
\* The process-wide random source (the global Math.random slot).
\* "native" is the runtime's own generator; "seeded" is the closure that
\* randomizeSound installs.  Either one is a generator with a hidden state;
\* a draw advances the state of whichever function is installed.

LcgMul == 9301
LcgInc == 49297
LcgMod == 233280

\* (x * LcgMul + LcgInc) modulo LcgMod, in 0..LcgMod-1, computed in pieces
\* that stay within 32 bits (LcgMul = 90 * 100 + 301).
LcgResidue(x) ==
  (((((x * 90) % LcgMod) * 100) % LcgMod) + ((x * 301) % LcgMod) + LcgInc) % LcgMod

\* One call of the closure of randomizeSound: the new seedValue,
\* (seedValue * 9301 + 49297) % 233280.  JavaScript's % takes the sign of
\* the dividend, which is negative when seedValue < -(LcgInc / LcgMul).
\* The value returned to the caller is seedValue / LcgMod.
SeededStep(seedValue) ==
  LET r == LcgResidue(seedValue)
  IN  IF seedValue >= -(LcgInc \div LcgMul) \/ r = 0 THEN r ELSE r - LcgMod

\* One call of the runtime's generator: its next hidden state.
NativeStep(state) == (state * 75 + 74) % 65537

\* The value a hidden state yields, as a numerator over LcgMod.
NativeValue(state) == state * 3

\* Math.random(): the source after the call and the value it returned.
CallRandom(rnd) ==
  IF rnd.fn = "seeded"
    THEN LET s == SeededStep(rnd.state)
         IN  [rnd |-> [fn |-> "seeded", state |-> s], value |-> s]
    ELSE LET s == NativeStep(rnd.state)
         IN  [rnd |-> [fn |-> "native", state |-> s], value |-> NativeValue(s)]

\* An optional argument is <<>> when it is undefined and <<v>> when it is v.
Undefined == <<>>

Given(arg) == Len(arg) > 0

\* As InstallSeeded, but testing the seed for truthiness instead of comparing
\* it with undefined.
InstallSeededIfTruthy(rnd, seed) ==
  IF Len(seed) > 0 /\ seed[1] # 0 THEN [fn |-> "seeded", state |-> seed[1]] ELSE rnd

\* As InstallSeeded, but a call without a seed installs the function too, with
\* a seed of its own choosing.
InstallSeededDefault(rnd, seed) ==
  IF Len(seed) > 0 THEN [fn |-> "seeded", state |-> seed[1]]
  ELSE [fn |-> "seeded", state |-> 1]

\* if (seed !== undefined) Math.random = function() {...}, with seedValue = seed.
InstallSeeded(rnd, seed) ==
  IF Len(seed) > 0 THEN [fn |-> "seeded", state |-> seed[1]] ELSE rnd

-----------------------------------------------------------------------------
\* The synthesis engine (package bfxr2, loaded at run time): the interface
\* the wrapper calls.

\* reset_params(): the engine's baseline parameter state.
Defaults ==
  [waveType |-> 0, frequency_start |-> 500, frequency_slide |-> 0,
   attackTime |-> 0, sustainTime |-> 300, decayTime |-> 400,
   vibratoDepth |-> 0, vibratoSpeed |-> 0]

\* generate_pickup_coin() ... generate_blip_select(): the preset's values,
\* written over the fields of the parameter state p that the preset sets.
EnginePreset(routine, p) ==
  CASE routine = "generate_pickup_coin" ->
         [p EXCEPT !.frequency_start = 600, !.sustainTime = 100, !.decayTime = 300]
    [] routine = "generate_laser_shoot" ->
         [p EXCEPT !.waveType = 1, !.frequency_start = 800,
                   !.frequency_slide = -300, !.decayTime = 200]
    [] routine = "generate_explosion" ->
         [p EXCEPT !.waveType = 3, !.frequency_start = 200,
                   !.sustainTime = 600, !.decayTime = 500]
    [] routine = "generate_powerup" ->
         [p EXCEPT !.waveType = 2, !.frequency_start = 400,
                   !.frequency_slide = 200, !.vibratoDepth = 300,
                   !.vibratoSpeed = 500]
    [] routine = "generate_hit_hurt" ->
         [p EXCEPT !.waveType = 3, !.frequency_start = 300,
                   !.frequency_slide = -400, !.sustainTime = 0,
                   !.decayTime = 100]
    [] routine = "generate_jump" ->
         [p EXCEPT !.frequency_start = 350, !.frequency_slide = 250,
                   !.sustainTime = 200]
    [] routine = "generate_blip_select" ->
         [p EXCEPT !.waveType = 1, !.frequency_start = 550,
                   !.sustainTime = 50, !.decayTime = 50]

\* set_param(key, value): stores the value under a name the engine knows and
\* throws on a name it does not know.  No range is checked.
SetParamThrows(key) == key \notin FieldSet

SetParam(p, key, value) == [p EXCEPT ![key] = value]

\* A drawn value scaled into the range of a field.
ScaleDraw(key, value) ==
  RangeLo(key) + (value * (RangeHi(key) - RangeLo(key))) \div LcgMod

\* randomize_params(): one draw per field, in the order of Fields.
RECURSIVE RandomizeFrom(_, _, _)
RandomizeFrom(p, rnd, i) ==
  IF i > Len(Fields)
    THEN [params |-> p, rnd |-> rnd]
    ELSE LET d == CallRandom(rnd)
         IN  RandomizeFrom([p EXCEPT ![Fields[i]] = ScaleDraw(Fields[i], d.value)],
                           d.rnd, i + 1)

RandomizeParams(p, rnd) == RandomizeFrom(p, rnd, 1)

\* A byte of the rendered audio.
Byte(n) == ((n % 256) + 256) % 256

RECURSIVE Repeat(_, _)
Repeat(b, n) == IF n <= 0 THEN <<>> ELSE <<b>> \o Repeat(b, n - 1)

\* generate_sound(): the rendered audio of a parameter state, as the bytes of
\* the WAV file the handle encodes to: a byte for every field, followed by a
\* number of samples that grows with sustainTime.
RenderBytes(p) ==
  [i \in 1..Len(Fields) |-> Byte(p[Fields[i]])]
    \o Repeat(Byte(p.decayTime), 1 + p.sustainTime \div 500)

\* The sound object the engine stores in this.bfxr.sound.
Render(p) == [from |-> p, wav |-> RenderBytes(p)]

-----------------------------------------------------------------------------
\* Encoding: sound.getDataUri() and Buffer.from(base64, 'base64').
\* Text is a sequence of characters, each a one-character string.

B64Alphabet ==
  <<"A", "B", "C", "D", "E", "F", "G", "H", "I", "J", "K", "L", "M",
    "N", "O", "P", "Q", "R", "S", "T", "U", "V", "W", "X", "Y", "Z",
    "a", "b", "c", "d", "e", "f", "g", "h", "i", "j", "k", "l", "m",
    "n", "o", "p", "q", "r", "s", "t", "u", "v", "w", "x", "y", "z",
    "0", "1", "2", "3", "4", "5", "6", "7", "8", "9", "+", "/">>

B64Char(n) == B64Alphabet[n + 1]

\* The value of each character of the alphabet.
B64Values ==
  [c \in {B64Alphabet[i] : i \in 1..Len(B64Alphabet)} |->
     (CHOOSE i \in 1..Len(B64Alphabet) : B64Alphabet[i] = c) - 1]

B64Index(c) == B64Values[c]

\* The engine's base64 encoder: each group of three bytes becomes four
\* characters; a last group of one or two bytes is padded with "=".
Base64Encode(bytes) ==
  LET n == Len(bytes)
      byteAt(i) == IF i <= n THEN bytes[i] ELSE 0
      charAt(k) ==
        LET g == (k - 1) \div 4
            j == (k - 1) % 4
            b1 == byteAt(3 * g + 1)
            b2 == byteAt(3 * g + 2)
            b3 == byteAt(3 * g + 3)
        IN  CASE j = 0 -> B64Char(b1 \div 4)
              [] j = 1 -> B64Char((b1 % 4) * 16 + b2 \div 16)
              [] j = 2 -> IF 3 * g + 2 > n THEN "="
                          ELSE B64Char((b2 % 16) * 4 + b3 \div 64)
              [] j = 3 -> IF 3 * g + 3 > n THEN "=" ELSE B64Char(b3 % 64)
  IN  [k \in 1..(4 * ((n + 2) \div 3)) |-> charAt(k)]

\* Buffer.from(text, 'base64'): the characters before the first "=" carry six
\* bits each; every full eight bits make a byte.
Base64Decode(text) ==
  LET pads == {i \in 1..Len(text) : text[i] = "="}
      m == IF pads = {} THEN Len(text)
           ELSE (CHOOSE i \in pads : \A j \in pads : i <= j) - 1
      v(c) == B64Index(text[c])
      byteAt(i) ==
        LET c == ((i - 1) * 8) \div 6 + 1
            off == ((i - 1) * 8) % 6
        IN  CASE off = 0 -> v(c) * 4 + v(c + 1) \div 16
              [] off = 2 -> (v(c) % 16) * 16 + v(c + 1) \div 4
              [] off = 4 -> (v(c) % 4) * 64 + v(c + 1)
  IN  [i \in 1..((m * 6) \div 8) |-> byteAt(i)]

\* The head of a data URI; the media type is kept as one piece of text.
DataUriPrefix == <<"data:audio/wav;base64", ",">>

\* sound.getDataUri(): "data:audio/wav;base64," followed by the payload.
GetDataUri(snd) == DataUriPrefix \o Base64Encode(snd.wav)

\* text.split(sep): the pieces of text between the separators.
Split(text, sep) ==
  LET seps == {i \in 1..Len(text) : text[i] = sep}
      cut(k) ==
        IF k = 0 THEN 0
        ELSE IF k > Cardinality(seps) THEN Len(text) + 1
        ELSE CHOOSE i \in seps : Cardinality({j \in seps : j < i}) = k - 1
  IN  [k \in 1..(Cardinality(seps) + 1) |-> SubSeq(text, cut(k - 1) + 1, cut(k) - 1)]

\* BfxrWrapper.getWavData(): throws while no sound exists; otherwise the
\* base64 part of the data URI.
GetWavData(snd) ==
  IF Len(snd) = 0
    THEN [threw |-> TRUE, err |-> "No sound generated yet", base64 |-> <<>>]
    ELSE [threw |-> FALSE, err |-> "", base64 |-> Split(GetDataUri(snd[1]), ",")[2]]

-----------------------------------------------------------------------------
\* The file system.  A path is the sequence of its components.

DirName(path) == SubSeq(path, 1, Len(path) - 1)

\* Directories in which the process may not create or write anything.
ReadOnly(dir) == Len(dir) > 0 /\ dir[1] = "ro"

NoMessage == [type |-> "", seed |-> <<>>, path |-> <<>>, size |-> 0]

\* As SaveWavFile, but reporting the length of the base64 text as the size.
SaveWavFileTextSize(filePath, type, snd, fs, ds) ==
  LET failed(err) ==
        [threw |-> TRUE, err |-> err, files |-> fs, dirs |-> ds, message |-> NoMessage]
      written(path) ==
        LET text == GetWavData(snd).base64
        IN  [threw |-> FALSE, err |-> "",
             files |-> [fs EXCEPT ![path] = <<Base64Decode(text)>>],
             dirs |-> ds \union {DirName(path)},
             message |-> [type |-> type, seed |-> <<>>, path |-> path,
                          size |-> Len(text)]]
  IN  IF Len(snd) = 0 THEN failed(GetWavData(snd).err)
      ELSE IF ~Given(filePath) THEN failed("path must be a string")
      ELSE IF ReadOnly(DirName(filePath[1])) THEN failed("permission denied")
      ELSE written(filePath[1])

\* saveWavFile(filePath, type): getWavData, create the directory if it does
\* not exist, decode, write, and report the path and the buffer's length.
\* path.dirname throws on an undefined path; mkdirSync or writeFileSync
\* throws in a read-only place.
SaveWavFile(filePath, type, snd, fs, ds) ==
  LET failed(err) ==
        [threw |-> TRUE, err |-> err, files |-> fs, dirs |-> ds, message |-> NoMessage]
      written(path) ==
        LET buffer == Base64Decode(GetWavData(snd).base64)
        IN  [threw |-> FALSE, err |-> "",
             files |-> [fs EXCEPT ![path] = <<buffer>>],
             dirs |-> ds \union {DirName(path)},
             message |-> [type |-> type, seed |-> <<>>, path |-> path,
                          size |-> Len(buffer)]]
  IN  IF Len(snd) = 0 THEN failed(GetWavData(snd).err)
      ELSE IF ~Given(filePath) THEN failed("path must be a string")
      ELSE IF ReadOnly(DirName(filePath[1])) THEN failed("permission denied")
      ELSE written(filePath[1])

-----------------------------------------------------------------------------
\* BfxrWrapper.  Each method yields the engine state it leaves behind and
\* whether it threw; handed lists the entries it passed to set_param.

\* The switch of generateSoundEffect: the engine routine of a type, or
\* "throw" for the default branch.
PresetRoutine(type) ==
  CASE type = "pickup" -> "generate_pickup_coin"
    [] type = "laser" -> "generate_laser_shoot"
    [] type = "explosion" -> "generate_explosion"
    [] type = "powerup" -> "generate_powerup"
    [] type = "hit" -> "generate_hit_hurt"
    [] type = "jump" -> "generate_jump"
    [] type = "blip" -> "generate_blip_select"
    [] OTHER -> "throw"

Outcome(threw, err, p, snd, rnd, handed, rendered) ==
  [threw |-> threw, err |-> err, params |-> p, sound |-> snd, rnd |-> rnd,
   handed |-> handed, rendered |-> rendered]

\* for (const [key, value] of Object.entries(obj)) this.bfxr.set_param(key, value)
RECURSIVE ApplyEntries(_, _, _)
ApplyEntries(p, entries, i) ==
  IF i > Len(entries) THEN [threw |-> FALSE, params |-> p, handed |-> entries]
  ELSE IF SetParamThrows(entries[i][1])
    THEN [threw |-> TRUE, params |-> p, handed |-> SubSeq(entries, 1, i)]
  ELSE ApplyEntries(SetParam(p, entries[i][1], entries[i][2]), entries, i + 1)

\* this.bfxr.generate_sound(): on success the new sound replaces the old one;
\* when the engine throws, the sound is the one it was.
GenerateSound(p, snd, renderOk) == IF renderOk THEN <<Render(p)>> ELSE snd

\* generateSoundEffect with the preset routine called after the overrides
\* loop instead of before it.
GenerateSoundEffectPresetLast(type, customParams, p, snd, rnd, renderOk) ==
  LET entries == IF Given(customParams) THEN customParams[1] ELSE <<>>
      reset == Defaults
  IN  IF PresetRoutine(type) = "throw"
        THEN Outcome(TRUE, "Unknown sound type", reset, snd, rnd, <<>>, FALSE)
      ELSE LET applied == ApplyEntries(reset, entries, 1)
               final == EnginePreset(PresetRoutine(type), applied.params)
           IN  IF applied.threw
                 THEN Outcome(TRUE, "Unsupported parameter", applied.params, snd, rnd,
                              applied.handed, FALSE)
               ELSE IF ~renderOk
                 THEN Outcome(TRUE, "Render failed", final, snd, rnd,
                              applied.handed, FALSE)
               ELSE Outcome(FALSE, "", final, GenerateSound(final, snd, renderOk),
                            rnd, applied.handed, TRUE)

\* generateSoundEffect without the reset_params call: the preset routine
\* writes over whatever the engine holds.
GenerateSoundEffectNoReset(type, customParams, p, snd, rnd, renderOk) ==
  LET entries == IF Given(customParams) THEN customParams[1] ELSE <<>>
  IN  IF PresetRoutine(type) = "throw"
        THEN Outcome(TRUE, "Unknown sound type", p, snd, rnd, <<>>, FALSE)
      ELSE LET applied == ApplyEntries(EnginePreset(PresetRoutine(type), p), entries, 1)
           IN  IF applied.threw
                 THEN Outcome(TRUE, "Unsupported parameter", applied.params, snd, rnd,
                              applied.handed, FALSE)
               ELSE IF ~renderOk
                 THEN Outcome(TRUE, "Render failed", applied.params, snd, rnd,
                              applied.handed, FALSE)
               ELSE Outcome(FALSE, "", applied.params,
                            GenerateSound(applied.params, snd, renderOk), rnd,
                            applied.handed, TRUE)

\* generateSoundEffect(type, customParams = {}): reset_params, the preset
\* routine of the type, the overrides in order, generate_sound.
GenerateSoundEffect(type, customParams, p, snd, rnd, renderOk) ==
  LET entries == IF Given(customParams) THEN customParams[1] ELSE <<>>
      reset == Defaults
  IN  IF PresetRoutine(type) = "throw"
        THEN Outcome(TRUE, "Unknown sound type", reset, snd, rnd, <<>>, FALSE)
      ELSE LET applied == ApplyEntries(EnginePreset(PresetRoutine(type), reset), entries, 1)
           IN  IF applied.threw
                 THEN Outcome(TRUE, "Unsupported parameter", applied.params, snd, rnd,
                              applied.handed, FALSE)
               ELSE IF ~renderOk
                 THEN Outcome(TRUE, "Render failed", applied.params, snd, rnd,
                              applied.handed, FALSE)
               ELSE Outcome(FALSE, "", applied.params,
                            GenerateSound(applied.params, snd, renderOk), rnd,
                            applied.handed, TRUE)

\* createCustomSound without the reset_params call: the entries are written
\* over whatever the engine holds.
CreateCustomSoundNoReset(parameters, p, snd, rnd, renderOk) ==
  IF ~Given(parameters)
    THEN Outcome(TRUE, "Cannot convert undefined to object", p, snd, rnd, <<>>, FALSE)
  ELSE LET applied == ApplyEntries(p, parameters[1], 1)
       IN  IF applied.threw
             THEN Outcome(TRUE, "Unsupported parameter", applied.params, snd, rnd,
                          applied.handed, FALSE)
           ELSE IF ~renderOk
             THEN Outcome(TRUE, "Render failed", applied.params, snd, rnd,
                          applied.handed, FALSE)
           ELSE Outcome(FALSE, "", applied.params,
                        GenerateSound(applied.params, snd, renderOk), rnd,
                        applied.handed, TRUE)

\* createCustomSound(parameters): reset_params, every entry in order,
\* generate_sound.  Object.entries throws on undefined.
CreateCustomSound(parameters, p, snd, rnd, renderOk) ==
  LET reset == Defaults
  IN  IF ~Given(parameters)
        THEN Outcome(TRUE, "Cannot convert undefined to object", reset, snd, rnd,
                     <<>>, FALSE)
      ELSE LET applied == ApplyEntries(reset, parameters[1], 1)
           IN  IF applied.threw
                 THEN Outcome(TRUE, "Unsupported parameter", applied.params, snd, rnd,
                              applied.handed, FALSE)
               ELSE IF ~renderOk
                 THEN Outcome(TRUE, "Render failed", applied.params, snd, rnd,
                              applied.handed, FALSE)
               ELSE Outcome(FALSE, "", applied.params,
                            GenerateSound(applied.params, snd, renderOk), rnd,
                            applied.handed, TRUE)

\* randomizeSound(seed): install the seeded function when a seed is given,
\* randomize_params, generate_sound.  Math.random is not assigned again.
RandomizeSound(seed, p, snd, rnd, renderOk) ==
  LET installed == InstallSeeded(rnd, seed)
      randomized == RandomizeParams(p, installed)
  IN  IF ~renderOk
        THEN Outcome(TRUE, "Render failed", randomized.params, snd, randomized.rnd,
                     <<>>, FALSE)
      ELSE Outcome(FALSE, "", randomized.params,
                   GenerateSound(randomized.params, snd, renderOk), randomized.rnd,
                   <<>>, TRUE)

\* getCurrentParameters(): this.bfxr.params, whether or not a sound exists.
GetCurrentParameters(p, snd) == p

PresetTypes == {"pickup", "laser", "explosion", "powerup", "hit", "jump", "blip"}

\* As GetPresets, but the first entry is listed under the name "coin", which
\* the switch of generateSoundEffect does not know.
GetPresetsRenamed == <<"coin", "laser", "explosion", "powerup", "hit", "jump", "blip">>

\* getPresets(): the names of the seven entries, in order.
GetPresets == <<"pickup", "laser", "explosion", "powerup", "hit", "jump", "blip">>

-----------------------------------------------------------------------------
\* The CallTool request handler.

NoSummary == <<>>

\* Number.prototype.toFixed(2): the value rounded to hundredths, halves away
\* from zero.
ToFixed2(v) ==
  IF v >= 0 THEN ((v + 5) \div 10) * 10 ELSE -(((5 - v) \div 10) * 10)

\* The summary object and the text built from it in the get_parameters case:
\* frequency and the envelope are printed with toFixed(2), vibrato is reported
\* only when vibratoDepth > 0, the slide only when it is not 0.
Summary(p) ==
  [waveType |-> p.waveType,
   frequency |-> ToFixed2(p.frequency_start),
   attack |-> ToFixed2(p.attackTime),
   sustain |-> ToFixed2(p.sustainTime),
   decay |-> ToFixed2(p.decayTime),
   vibrato |-> IF p.vibratoDepth > 0 THEN <<p.vibratoDepth, p.vibratoSpeed>> ELSE <<>>,
   slide |-> IF p.frequency_slide # 0 THEN <<p.frequency_slide>> ELSE <<>>]

Response(isError, kind, message, error, summary, presets) ==
  [isError |-> isError, kind |-> kind, message |-> message, error |-> error,
   summary |-> summary, presets |-> presets]

NoResponse == Response(FALSE, "none", NoMessage, "", NoSummary, <<>>)

\* return { content: [{ type: "text", text: result.message }] }
Saved(message) == Response(FALSE, "saved", message, "", NoSummary, <<>>)

\* As Caught, but without the isError flag.
CaughtWithoutFlag(err) == Response(FALSE, "error", NoMessage, err, NoSummary, <<>>)

\* catch (error): the text "Error: <message>" with isError: true.
Caught(err) == Response(TRUE, "error", NoMessage, err, NoSummary, <<>>)

\* The early return of the export_wav case: a plain text response.
NoSoundYet ==
  Response(FALSE, "nosound", NoMessage,
           "No sound generated yet. Please generate a sound first.", NoSummary, <<>>)

\* `random${seed ? ` (seed: ${seed})` : ''}`: the seed is echoed when truthy.
RandomLabel(seed) == IF Given(seed) /\ seed[1] # 0 THEN seed ELSE <<>>

Trace(threw, handed, rendered, wrote) ==
  [threw |-> threw, handed |-> handed, rendered |-> rendered, wrote |-> wrote]

\* As Finish, but a failed saveWavFile puts back the sound the session held
\* before the request.
FinishRestoringSound(gen, filepath, type, seedEcho) ==
  /\ everRendered' = (everRendered \/ gen.rendered)
  /\ params' = gen.params
  /\ mathRandom' = gen.rnd
  /\ IF gen.threw
       THEN /\ UNCHANGED <<files, dirs>>
            /\ sound' = gen.sound
            /\ response' = Caught(gen.err)
            /\ trace' = Trace(TRUE, gen.handed, gen.rendered, FALSE)
       ELSE \E saved \in {SaveWavFile(filepath, type, gen.sound, files, dirs)} :
              /\ files' = saved.files
              /\ dirs' = saved.dirs
              /\ sound' = IF saved.threw THEN sound ELSE gen.sound
              /\ response' = IF saved.threw THEN Caught(saved.err)
                             ELSE Saved([saved.message EXCEPT !.seed = seedEcho])
              /\ trace' = Trace(saved.threw, gen.handed, gen.rendered, ~saved.threw)

\* What a request leaves behind: the generation outcome `gen` followed, when
\* it did not throw, by saveWavFile under the label `type`.
Finish(gen, filepath, type, seedEcho) ==
  /\ everRendered' = (everRendered \/ gen.rendered)
  /\ params' = gen.params
  /\ sound' = gen.sound
  /\ mathRandom' = gen.rnd
  /\ IF gen.threw
       THEN /\ UNCHANGED <<files, dirs>>
            /\ response' = Caught(gen.err)
            /\ trace' = Trace(TRUE, gen.handed, gen.rendered, FALSE)
       ELSE \E saved \in {SaveWavFile(filepath, type, gen.sound, files, dirs)} :
              /\ files' = saved.files
              /\ dirs' = saved.dirs
              /\ response' = IF saved.threw THEN Caught(saved.err)
                             ELSE Saved([saved.message EXCEPT !.seed = seedEcho])
              /\ trace' = Trace(saved.threw, gen.handed, gen.rendered, ~saved.threw)

\* The request as received and the session as it was when it arrived.
Begin(name, hasArgs, args) ==
  /\ calls' = calls + 1
  /\ call' = [name |-> name, hasArgs |-> hasArgs, type |-> args.type,
              customParams |-> args.customParams, parameters |-> args.parameters,
              seed |-> args.seed, filepath |-> args.filepath,
              renderOk |-> args.renderOk]
  /\ pre' = [params |-> params, sound |-> sound, mathRandom |-> mathRandom]
  /\ UNCHANGED <<inbox, handlers, done>>

\* The log of seeded results after a generation outcome: the first rendered
\* result of each seed is kept.
Logged(seed, gen) ==
  IF Given(seed) /\ gen.rendered /\ seededLog[seed[1]] = <<>>
    THEN [seededLog EXCEPT ![seed[1]] = <<[params |-> gen.params, wav |-> gen.sound[1].wav]>>]
    ELSE seededLog

-----------------------------------------------------------------------------
\* Requests.  Each action is one request handled from start to finish.

GoodPath == <<"tmp", "a.wav">>
NewDirPath == <<"tmp", "out", "b.wav">>
ReadOnlyPath == <<"ro", "c.wav">>

Paths == {GoodPath, NewDirPath, ReadOnlyPath}

FilepathInputs == {<<q>> : q \in Paths} \union {Undefined}

TypeInputs == PresetTypes \union {"bogus"}

\* Argument objects for customParams and parameters: valid, out of range
\* (decayTime 0, waveType 12), and a valid entry followed by an unknown key.
EntriesInputs ==
  { <<>>,
    << <<"frequency_start", 707>>, <<"vibratoSpeed", 500>> >>,
    << <<"decayTime", 0>> >>,
    << <<"frequency_start", 707>>, <<"bogus", 1>>, <<"waveType", 2>> >> }

SeedValues == {0, 42, -7}

SeedInputs == {<<n>> : n \in SeedValues} \union {Undefined}

Args(type, customParams, parameters, seed, filepath, renderOk) ==
  [type |-> type, customParams |-> customParams, parameters |-> parameters,
   seed |-> seed, filepath |-> filepath, renderOk |-> renderOk]

NoArgs == Args("", Undefined, Undefined, Undefined, Undefined, TRUE)

\* The argument bags tried for generate_sound_effect.
GenerateArgs ==
  {Args(t, Undefined, Undefined, Undefined, <<GoodPath>>, TRUE) : t \in TypeInputs}
    \union {Args("laser", <<e>>, Undefined, Undefined, <<GoodPath>>, r) :
              e \in EntriesInputs, r \in BOOLEAN}
    \union {Args("pickup", Undefined, Undefined, Undefined, f, TRUE) :
              f \in FilepathInputs}

\* The argument bags tried for create_custom_sound.
CreateArgs ==
  {Args("", Undefined, <<e>>, Undefined, <<GoodPath>>, r) :
     e \in EntriesInputs, r \in BOOLEAN}
    \union {Args("", Undefined, Undefined, Undefined, <<GoodPath>>, TRUE),
            Args("", Undefined, << << <<"sustainTime", 1000>> >> >>, Undefined,
                 <<ReadOnlyPath>>, TRUE)}

\* The argument bags tried for randomize_sound.
RandomizeArgs ==
  {Args("", Undefined, Undefined, sd, <<GoodPath>>, r) :
     sd \in SeedInputs, r \in BOOLEAN}
    \union {Args("", Undefined, Undefined, <<42>>, Undefined, TRUE)}

\* case "generate_sound_effect"
GenerateSoundEffectTool ==
  /\ calls < MaxCalls
  /\ \E args \in GenerateArgs :
       \E gen \in {GenerateSoundEffect(args.type, args.customParams, params, sound,
                                       mathRandom, args.renderOk)} :
         /\ Begin("generate_sound_effect", TRUE, args)
         /\ UNCHANGED seededLog
         /\ Finish(gen, args.filepath, args.type, <<>>)

\* case "create_custom_sound"
CreateCustomSoundTool ==
  /\ calls < MaxCalls
  /\ \E args \in CreateArgs :
       \E gen \in {CreateCustomSound(args.parameters, params, sound, mathRandom,
                                     args.renderOk)} :
         /\ Begin("create_custom_sound", TRUE, args)
         /\ UNCHANGED seededLog
         /\ Finish(gen, args.filepath, "custom", <<>>)

\* case "randomize_sound"
RandomizeSoundTool ==
  /\ calls < MaxCalls
  /\ \E args \in RandomizeArgs :
       \E gen \in {RandomizeSound(args.seed, params, sound, mathRandom,
                                  args.renderOk)} :
         /\ Begin("randomize_sound", TRUE, args)
         /\ seededLog' = Logged(args.seed, gen)
         /\ Finish(gen, args.filepath, "random", RandomLabel(args.seed))

\* An export_wav case that hands the sound over: after a file was written the
\* engine holds no sound.
ExportWavToolConsuming ==
  /\ calls < MaxCalls
  /\ \E f \in FilepathInputs :
       /\ Begin("export_wav", TRUE, [NoArgs EXCEPT !.filepath = f])
       /\ UNCHANGED <<params, mathRandom, seededLog, everRendered>>
       /\ IF Len(sound) = 0
            THEN /\ UNCHANGED <<files, dirs, sound>>
                 /\ response' = NoSoundYet
                 /\ trace' = Trace(FALSE, <<>>, FALSE, FALSE)
            ELSE \E saved \in {SaveWavFile(f, "exported", sound, files, dirs)} :
                   /\ files' = saved.files
                   /\ dirs' = saved.dirs
                   /\ sound' = IF saved.threw THEN sound ELSE <<>>
                   /\ response' = IF saved.threw THEN Caught(saved.err)
                                  ELSE Saved(saved.message)
                   /\ trace' = Trace(saved.threw, <<>>, FALSE, ~saved.threw)

\* case "export_wav": the early return while no sound exists, else saveWavFile.
ExportWavTool ==
  /\ calls < MaxCalls
  /\ \E f \in FilepathInputs :
       /\ Begin("export_wav", TRUE, [NoArgs EXCEPT !.filepath = f])
       /\ UNCHANGED <<params, sound, mathRandom, seededLog, everRendered>>
       /\ IF Len(sound) = 0
            THEN /\ UNCHANGED <<files, dirs>>
                 /\ response' = NoSoundYet
                 /\ trace' = Trace(FALSE, <<>>, FALSE, FALSE)
            ELSE \E saved \in {SaveWavFile(f, "exported", sound, files, dirs)} :
                   /\ files' = saved.files
                   /\ dirs' = saved.dirs
                   /\ response' = IF saved.threw THEN Caught(saved.err)
                                  ELSE Saved(saved.message)
                   /\ trace' = Trace(saved.threw, <<>>, FALSE, ~saved.threw)

\* case "get_parameters"
GetParametersTool ==
  /\ calls < MaxCalls
  /\ Begin("get_parameters", TRUE, NoArgs)
  /\ UNCHANGED <<params, sound, mathRandom, files, dirs, seededLog, everRendered>>
  /\ response' = Response(FALSE, "params", NoMessage, "",
                          <<Summary(GetCurrentParameters(params, sound))>>, <<>>)
  /\ trace' = Trace(FALSE, <<>>, FALSE, FALSE)

\* case "list_presets"
ListPresetsTool ==
  /\ calls < MaxCalls
  /\ Begin("list_presets", TRUE, NoArgs)
  /\ UNCHANGED <<params, sound, mathRandom, files, dirs, seededLog, everRendered>>
  /\ response' = Response(FALSE, "presets", NoMessage, "", NoSummary, GetPresets)
  /\ trace' = Trace(FALSE, <<>>, FALSE, FALSE)

\* default: throw new Error(`Unknown tool: ${name}`)
UnknownTool ==
  /\ calls < MaxCalls
  /\ Begin("no_such_tool", TRUE, NoArgs)
  /\ UNCHANGED <<params, sound, mathRandom, files, dirs, seededLog, everRendered>>
  /\ response' = Caught("Unknown tool")
  /\ trace' = Trace(TRUE, <<>>, FALSE, FALSE)

\* A request without an arguments object to a tool that destructures it: the
\* TypeError is thrown inside the try block, before anything else is done.
MissingArguments ==
  /\ calls < MaxCalls
  /\ \E name \in {"generate_sound_effect", "create_custom_sound",
                  "randomize_sound", "export_wav"} :
       /\ Begin(name, FALSE, NoArgs)
       /\ UNCHANGED <<params, sound, mathRandom, files, dirs, seededLog, everRendered>>
       /\ response' = Caught("Cannot destructure arguments")
       /\ trace' = Trace(TRUE, <<>>, FALSE, FALSE)

\* No invocation has returned yet.
NoneDone == [name |-> "none", filepath |-> Undefined, own |-> <<>>, wrote |-> FALSE]

NativeSeeds == {1}

\* After new BfxrWrapper(): the engine holds its baseline parameters and no
\* sound; Math.random is the runtime's generator in some state.
Init ==
  /\ params = Defaults
  /\ sound = <<>>
  /\ mathRandom \in {[fn |-> "native", state |-> n] : n \in NativeSeeds}
  /\ files = [q \in Paths |-> <<>>]
  /\ dirs = {<<"tmp">>, <<"ro">>}
  /\ response = NoResponse
  /\ call = [name |-> "none", hasArgs |-> FALSE, type |-> "",
             customParams |-> Undefined, parameters |-> Undefined,
             seed |-> Undefined, filepath |-> Undefined, renderOk |-> TRUE]
  /\ pre = [params |-> Defaults, sound |-> <<>>, mathRandom |-> mathRandom]
  /\ trace = Trace(FALSE, <<>>, FALSE, FALSE)
  /\ seededLog = [n \in SeedValues |-> <<>>]
  /\ everRendered = FALSE
  /\ calls = 0
  /\ inbox = <<>>
  /\ handlers = <<>>
  /\ done = NoneDone

Next ==
  \/ GenerateSoundEffectTool
  \/ CreateCustomSoundTool
  \/ RandomizeSoundTool
  \/ ExportWavTool
  \/ GetParametersTool
  \/ ListPresetsTool
  \/ UnknownTool
  \/ MissingArguments

Spec == Init /\ [][Next]_vars

-----------------------------------------------------------------------------
\* The event loop.  The same handler, one statement group at a time: the
\* transport reads requests as they arrive, the loop gives a request to the
\* handler, and the handler's body runs in steps: installing the seeded
\* function, the wrapper method, getWavData, the file write.

\* The requests a client sends in this specification.
LoopRequests ==
  { [name |-> "generate_sound_effect", type |-> "pickup", seed |-> Undefined,
     filepath |-> <<GoodPath>>],
    [name |-> "generate_sound_effect", type |-> "bogus", seed |-> Undefined,
     filepath |-> <<GoodPath>>],
    [name |-> "randomize_sound", type |-> "", seed |-> <<42>>,
     filepath |-> <<NewDirPath>>],
    [name |-> "randomize_sound", type |-> "", seed |-> Undefined,
     filepath |-> <<ReadOnlyPath>>],
    [name |-> "export_wav", type |-> "", seed |-> Undefined,
     filepath |-> <<GoodPath>>] }

\* An invocation of the handler: its request, where it stands, the sound it
\* rendered (or, for export_wav, found), the source as it left it, and the
\* handle getWavData read.
Invocation(req, pc, own, rnd, seen) ==
  [req |-> req, pc |-> pc, own |-> own, rnd |-> rnd, seen |-> seen]

Without(seq, i) == SubSeq(seq, 1, i - 1) \o SubSeq(seq, i + 1, Len(seq))

Returned(h, wrote) ==
  [name |-> h.req.name, filepath |-> h.req.filepath, own |-> h.own, wrote |-> wrote]

\* The transport's onmessage: a request arrives and waits for the loop.
ReceiveRequest ==
  /\ calls < MaxCalls
  /\ \E req \in LoopRequests :
       /\ inbox' = Append(inbox, req)
       /\ calls' = calls + 1
  /\ UNCHANGED <<params, sound, mathRandom, files, dirs, response, call, pre,
                 trace, seededLog, everRendered, handlers, done>>

\* As Dispatch, but the loop gives a request to the handler while an earlier
\* invocation has not returned, as it would if the handler's body awaited.
DispatchWhileRunning ==
  /\ Len(inbox) > 0
  /\ handlers' = Append(handlers,
                        Invocation(Head(inbox), "start", <<>>, mathRandom, <<>>))
  /\ inbox' = Tail(inbox)
  /\ UNCHANGED <<params, sound, mathRandom, files, dirs, response, call, pre,
                 trace, seededLog, everRendered, calls, done>>

\* The loop gives the next request to the handler.  The handler's body has no
\* await: it runs to its return in one turn of the loop, so no request is
\* given to the handler while an invocation has not returned.
Dispatch ==
  /\ Len(handlers) = 0
  /\ Len(inbox) > 0
  /\ handlers' = Append(handlers,
                        Invocation(Head(inbox), "start", <<>>, mathRandom, <<>>))
  /\ inbox' = Tail(inbox)
  /\ UNCHANGED <<params, sound, mathRandom, files, dirs, response, call, pre,
                 trace, seededLog, everRendered, calls, done>>

\* randomizeSound, first statement: if (seed !== undefined) Math.random = ...
StepInstall ==
  \E i \in 1..Len(handlers) :
    LET h == handlers[i]
    IN  /\ h.pc = "start"
        /\ h.req.name = "randomize_sound"
        /\ mathRandom' = InstallSeeded(mathRandom, h.req.seed)
        /\ handlers' = [handlers EXCEPT ![i] =
                          Invocation(h.req, "installed", <<>>, mathRandom', <<>>)]
        /\ UNCHANGED <<params, sound, files, dirs, response, call, pre, trace,
                       seededLog, everRendered, calls, inbox, done>>

\* The wrapper method up to and including generate_sound(); for export_wav
\* the test of this.bfxr.sound.  A throw ends the invocation in the catch.
StepGenerate ==
  \E i \in 1..Len(handlers) :
    LET h == handlers[i]
    IN  /\ \/ h.pc = "start" /\ h.req.name # "randomize_sound"
           \/ h.pc = "installed"
        /\ UNCHANGED <<files, dirs, call, pre, trace, seededLog, everRendered,
                       calls, inbox>>
        /\ IF h.req.name = "export_wav"
             THEN /\ UNCHANGED <<params, sound, mathRandom>>
                  /\ IF Len(sound) = 0
                       THEN /\ response' = NoSoundYet
                            /\ handlers' = Without(handlers, i)
                            /\ done' = Returned(h, FALSE)
                       ELSE /\ handlers' = [handlers EXCEPT ![i] =
                                   Invocation(h.req, "generated", sound, mathRandom, <<>>)]
                            /\ UNCHANGED <<response, done>>
             ELSE \E gen \in {IF h.req.name = "randomize_sound"
                                 THEN RandomizeSound(Undefined, params, sound,
                                                     mathRandom, TRUE)
                                 ELSE GenerateSoundEffect(h.req.type, Undefined, params,
                                                          sound, mathRandom, TRUE)} :
                    /\ params' = gen.params
                    /\ sound' = gen.sound
                    /\ mathRandom' = gen.rnd
                    /\ IF gen.threw
                         THEN /\ response' = Caught(gen.err)
                              /\ handlers' = Without(handlers, i)
                              /\ done' = Returned(h, FALSE)
                         ELSE /\ handlers' = [handlers EXCEPT ![i] =
                                     Invocation(h.req, "generated", gen.sound, gen.rnd, <<>>)]
                              /\ UNCHANGED <<response, done>>

\* saveWavFile, first statement: const base64Data = musicGenerator.getWavData()
StepEncode ==
  \E i \in 1..Len(handlers) :
    LET h == handlers[i]
    IN  /\ h.pc = "generated"
        /\ handlers' = [handlers EXCEPT ![i] =
                          Invocation(h.req, "encoded", h.own, h.rnd, sound)]
        /\ UNCHANGED <<params, sound, mathRandom, files, dirs, response, call, pre,
                       trace, seededLog, everRendered, calls, inbox, done>>

\* saveWavFile, the rest: the buffer, the directory, the write; then the
\* handler returns its response.
StepWrite ==
  \E i \in 1..Len(handlers) :
    LET h == handlers[i]
    IN  /\ h.pc = "encoded"
        /\ \E saved \in {SaveWavFile(h.req.filepath, h.req.name, h.seen, files, dirs)} :
             /\ files' = saved.files
             /\ dirs' = saved.dirs
             /\ response' = IF saved.threw THEN Caught(saved.err)
                            ELSE Saved(saved.message)
             /\ done' = Returned(h, ~saved.threw)
        /\ handlers' = Without(handlers, i)
        /\ UNCHANGED <<params, sound, mathRandom, call, pre, trace, seededLog,
                       everRendered, calls, inbox>>

LoopNext ==
  \/ ReceiveRequest
  \/ Dispatch
  \/ StepInstall
  \/ StepGenerate
  \/ StepEncode
  \/ StepWrite

LoopSpec == Init /\ [][LoopNext]_vars

TypeOK ==
  /\ calls \in 0..MaxCalls
  /\ Len(sound) \in {0, 1}
  /\ mathRandom.fn \in {"native", "seeded"}

-----------------------------------------------------------------------------
\* Properties.  Each is stated of the state a request leaves behind: call is
\* the request, pre the session before it, trace what happened inside it.

Empty(snd) == Len(snd) = 0

IsGeneration == call.name \in {"generate_sound_effect", "create_custom_sound",
                               "randomize_sound"}

SeededRandomize == call.name = "randomize_sound" /\ call.hasArgs /\ Given(call.seed)

\* The entries of the last request's customParams (none when it is undefined).
CallOverrides == IF Given(call.customParams) THEN call.customParams[1] ELSE <<>>

\* An entry naming a known parameter with a value outside its declared range.
OutOfRange(e) == e[1] \in FieldSet /\ ~InRange(e[1], e[2])

HasOutOfRange(entries) == \E i \in 1..Len(entries) : OutOfRange(entries[i])

\* C1: after randomize(seed) returns or raises, the function installed in the
\* ambient random source is again the one installed before the call.
C1_AmbientRestored ==
  SeededRandomize => mathRandom.fn = pre.mathRandom.fn

\* C2: every randomize with seed s leaves the ParameterSet that the first
\* rendered randomize(s) of the session left, and, when it renders, the same
\* audio, whatever the session state it started from.
C2_SeededDeterministic ==
  (SeededRandomize /\ seededLog[call.seed[1]] # <<>>) =>
    /\ params = seededLog[call.seed[1]][1].params
    /\ trace.rendered => sound[1].wav = seededLog[call.seed[1]][1].wav

\* C2 witness: a seeded randomize has rendered from a session whose parameters
\* and random source differ from the initial ones and whose earlier result for
\* the same seed is on record.
C2_Witness ==
  /\ SeededRandomize
  /\ trace.rendered
  /\ calls >= 2
  /\ pre.params = seededLog[call.seed[1]][1].params
  /\ pre.mathRandom.fn = "seeded"
  /\ pre.mathRandom.state # call.seed[1]

\* C3: export_wav in the Empty session answers with isError: true and the
\* "generate a sound first" guidance, and writes no file.
C3_ExportEmptyIsError ==
  (call.name = "export_wav" /\ call.hasArgs /\ Empty(pre.sound)) =>
    /\ response.isError
    /\ response.error = "No sound generated yet. Please generate a sound first."
    /\ ~trace.wrote

\* C4: get_parameters in the Empty session answers with an error and never
\* with a parameter summary.
C4_GetParametersEmptyIsError ==
  (call.name = "get_parameters" /\ Empty(pre.sound)) =>
    /\ response.isError
    /\ response.kind # "params"

\* C5: a generate_sound_effect whose overrides contain an invalid entry hands
\* nothing to set_param and leaves the ParameterSet and the sound as they were.
C5_OverridesAtomic ==
  (/\ call.name = "generate_sound_effect"
   /\ call.hasArgs
   /\ call.type \in PresetTypes
   /\ ~AllValid(CallOverrides)) =>
    /\ trace.handed = <<>>
    /\ params = pre.params
    /\ sound = pre.sound

\* C6: a create_custom_sound with a known parameter out of range fails,
\* renders nothing, leaves the ParameterSet and the sound as they were, and
\* hands no out-of-range value to set_param.
C6_CustomOutOfRangeRejected ==
  (/\ call.name = "create_custom_sound"
   /\ call.hasArgs
   /\ Given(call.parameters)
   /\ HasOutOfRange(call.parameters[1])) =>
    /\ response.isError
    /\ ~trace.rendered
    /\ params = pre.params
    /\ sound = pre.sound
    /\ ~HasOutOfRange(trace.handed)

\* C7: a generate_sound_effect with a type outside the seven presets answers
\* with an error and leaves the ParameterSet and the sound as they were.
C7_UnknownTypeNoChange ==
  (/\ call.name = "generate_sound_effect"
   /\ call.hasArgs
   /\ call.type \notin PresetTypes) =>
    /\ response.isError
    /\ params = pre.params
    /\ sound = pre.sound

\* C8: when the render step of a generation fails, the error is surfaced and
\* get_parameters and export_wav answer as they did before the failed call.
C8_RenderFailureKeepsCurrent ==
  (IsGeneration /\ response.error = "Render failed") =>
    /\ response.isError
    /\ Summary(params) = Summary(pre.params)
    /\ sound = pre.sound

\* C9: every request, whatever its name and arguments, is answered with a
\* structured response, and every failure thrown while handling it is
\* answered with isError: true and a message.
C9_EveryFailureIsErrorResponse ==
  calls > 0 =>
    /\ response.kind \in {"saved", "nosound", "params", "presets", "error"}
    /\ trace.threw => (response.isError /\ response.kind = "error"
                         /\ response.error # "")

\* C9 witness: a generation has rendered and the file write after it has
\* thrown, and the request was answered.
C9_Witness ==
  /\ trace.threw
  /\ trace.rendered
  /\ ~trace.wrote
  /\ response.error = "permission denied"

\* C10: once a generation has rendered, a sound exists ever after, and an
\* export_wav to a writable path succeeds and reports exactly the number of
\* bytes it wrote to the file.
C10_ReadyForever ==
  /\ everRendered => ~Empty(sound)
  /\ (/\ call.name = "export_wav"
      /\ call.hasArgs
      /\ ~Empty(pre.sound)
      /\ Given(call.filepath)
      /\ ~ReadOnly(DirName(call.filepath[1]))) =>
       /\ ~response.isError
       /\ response.kind = "saved"
       /\ files[call.filepath[1]] # <<>>
       /\ response.message.size = Len(files[call.filepath[1]][1])
       /\ files[call.filepath[1]][1] = sound[1].wav

\* C10 witness: an export has succeeded after a failed generation that
\* followed a successful one (the parameters are no longer those of the sound).
C10_Witness ==
  /\ call.name = "export_wav"
  /\ response.kind = "saved"
  /\ response.message.size > 0
  /\ sound[1].from # params

-----------------------------------------------------------------------------
\* Preset generation and its overrides.

\* A parameter state with the entries of an argument object written over it:
\* a field named by an entry has the value of the last entry naming it, every
\* other field the value of base.
Overridden(base, entries) ==
  [f \in FieldSet |->
     IF \E i \in 1..Len(entries) : entries[i][1] = f
       THEN LET last == CHOOSE i \in 1..Len(entries) :
                          /\ entries[i][1] = f
                          /\ \A j \in 1..Len(entries) : entries[j][1] = f => j <= i
            IN  entries[last][2]
       ELSE base[f]]

\* The parameter state a preset routine leaves on a freshly reset engine.
PresetBaseline(type) == EnginePreset(PresetRoutine(type), Defaults)

GenerateSucceeded ==
  call.name = "generate_sound_effect" /\ call.hasArgs /\ trace.rendered

\* What the get_parameters text says about a field: nothing when the summary
\* leaves the field out.
Reported(summary, key) ==
  CASE key = "waveType" -> <<summary.waveType>>
    [] key = "frequency_start" -> <<summary.frequency>>
    [] key = "attackTime" -> <<summary.attack>>
    [] key = "sustainTime" -> <<summary.sustain>>
    [] key = "decayTime" -> <<summary.decay>>
    [] key = "vibratoDepth" ->
         IF summary.vibrato = <<>> THEN <<>> ELSE <<summary.vibrato[1]>>
    [] key = "vibratoSpeed" ->
         IF summary.vibrato = <<>> THEN <<>> ELSE <<summary.vibrato[2]>>
    [] key = "frequency_slide" -> summary.slide
    [] OTHER -> <<>>

-----------------------------------------------------------------------------
\* Export.

ExportCalled == call.name = "export_wav" /\ call.hasArgs

\* C13: export_wav changes no session state: parameters, sound and Math.random
\* are after it what they were before it; the bytes it writes are the audio of
\* that unchanged sound, so a second export writes the same bytes; and
\* get_parameters reports what it would have reported before the export.
C13_ExportChangesNothing ==
  ExportCalled =>
    /\ params = pre.params
    /\ sound = pre.sound
    /\ mathRandom = pre.mathRandom
    /\ Summary(GetCurrentParameters(params, sound))
         = Summary(GetCurrentParameters(pre.params, pre.sound))
    /\ trace.wrote =>
         /\ ~Empty(pre.sound)
         /\ files[call.filepath[1]] = <<pre.sound[1].wav>>

\* An export that wrote a file whose bytes are the audio of the sound still
\* held, the same bytes as in a file written for that sound before.
C13_Witness ==
  /\ ExportCalled
  /\ trace.wrote
  /\ ~Empty(sound)
  /\ files[call.filepath[1]] = <<sound[1].wav>>
  /\ Len(sound[1].wav) > 0
  /\ pre.sound = sound
  /\ \E q \in Paths : q # call.filepath[1] /\ files[q] = files[call.filepath[1]]

-----------------------------------------------------------------------------
\* The seed of randomize_sound.

RandomizeSaved ==
  call.name = "randomize_sound" /\ call.hasArgs /\ trace.wrote

\* C14: the success message of randomize_sound contains the seed whenever a
\* seed was supplied (0 included) and no seed when none was supplied: the seed
\* is echoed exactly when the seeded generator was installed for the call.
C14_SeedEchoedWhenGiven ==
  RandomizeSaved =>
    /\ response.kind = "saved"
    /\ response.message.seed = call.seed

-----------------------------------------------------------------------------
\* Parameters and sound.

\* C15: whenever a sound exists, the parameter state get_parameters reads is
\* the one the sound export_wav would export was rendered from.
C15_ParametersOfCurrentSound ==
  ~Empty(sound) => GetCurrentParameters(params, sound) = sound[1].from

-----------------------------------------------------------------------------
\* The random source of an unseeded randomize_sound.

UnseededRandomize == call.name = "randomize_sound" /\ ~Given(call.seed)

\* The source after n calls of Math.random.
RECURSIVE Advance(_, _)
Advance(rnd, n) == IF n = 0 THEN rnd ELSE Advance(CallRandom(rnd).rnd, n - 1)

\* C16: randomize_sound without a seed installs nothing: the function in
\* Math.random after the call is the one that was there before it (the
\* runtime's, or a seeded one an earlier call left), and it has only been
\* advanced by the draws of this call, one per field.
C16_UnseededKeepsSource ==
  UnseededRandomize =>
    /\ mathRandom.fn = pre.mathRandom.fn
    /\ mathRandom = IF call.hasArgs THEN Advance(pre.mathRandom, Len(Fields))
                    ELSE pre.mathRandom

\* An unseeded randomize_sound that rendered new parameters with the runtime's
\* generator still in place.
C16_Witness ==
  /\ UnseededRandomize
  /\ call.hasArgs
  /\ trace.rendered
  /\ pre.mathRandom.fn = "native"
  /\ mathRandom.fn = "native"
  /\ mathRandom.state # pre.mathRandom.state
  /\ params # pre.params

-----------------------------------------------------------------------------
\* Custom sounds.

CreateSucceeded ==
  call.name = "create_custom_sound" /\ call.hasArgs /\ trace.rendered

\* C17: a successful create_custom_sound starts from the reset baseline only:
\* every field its argument names has the value given, every other field the
\* engine's default, whatever parameters the session held before; the sound
\* is rendered from that state.
C17_CustomFromDefaultsOnly ==
  CreateSucceeded =>
    /\ Given(call.parameters)
    /\ params = Overridden(Defaults, call.parameters[1])
    /\ sound = <<Render(Overridden(Defaults, call.parameters[1]))>>

\* A custom sound created in a session whose earlier request left a field at
\* another value than the default: the field is not named by the argument and
\* is back at the default.
C17_Witness ==
  /\ CreateSucceeded
  /\ Len(call.parameters[1]) > 0
  /\ \E f \in FieldSet :
       /\ \A i \in 1..Len(call.parameters[1]) : call.parameters[1][i][1] # f
       /\ pre.params[f] # Defaults[f]
       /\ params[f] = Defaults[f]
  /\ \E i \in 1..Len(call.parameters[1]) :
       params[call.parameters[1][i][1]] # Defaults[call.parameters[1][i][1]]

-----------------------------------------------------------------------------
\* Generation and the file write.

\* A generation request that rendered its sound and then wrote no file: the
\* filepath was missing or the write failed.
RenderedNotWritten == IsGeneration /\ call.hasArgs /\ trace.rendered /\ ~trace.wrote

\* C19: in the three generation tools the sound is replaced before the file
\* is written: when the write fails or the filepath is missing, the response
\* has isError: true and yet the session holds the sound just generated, which
\* is what a following export_wav writes.
C19_SoundReplacedBeforeWrite ==
  /\ RenderedNotWritten =>
        /\ response.isError
        /\ ~Given(call.filepath) \/ ReadOnly(DirName(call.filepath[1]))
        /\ sound = <<Render(params)>>
  /\ (ExportCalled /\ trace.wrote) =>
        /\ sound = pre.sound
        /\ files[call.filepath[1]][1] = sound[1].wav

\* A generation whose write failed in a session that held another sound: the
\* response is an error and the sound is the new one.
C19_Witness ==
  /\ RenderedNotWritten
  /\ response.isError
  /\ ~Empty(pre.sound)
  /\ sound # pre.sound
  /\ sound[1].wav # pre.sound[1].wav

-----------------------------------------------------------------------------
\* The range of the seeded generator.

\* C20: the state of the seeded generator after a step lies in 0..233279, and
\* so the value it returns (state / 233280) lies in [0, 1), for every seed.
\* A seeded function is in Math.random only after randomize_params has
\* drawn from it, so its state is always the state after a step.
C20_SeededStateInRange ==
  mathRandom.fn = "seeded" => mathRandom.state \in 0..(LcgMod - 1)

-----------------------------------------------------------------------------
\* One request at a time.

\* C18: requests are handled one at a time.  At most one invocation of the
\* handler has not returned; while it runs, the sound slot holds what it
\* rendered (or found), Math.random is as it left it, and the handle it
\* encoded is the one in the slot; and the file an invocation wrote holds the
\* audio of its own sound.  Requests that arrive meanwhile wait in the inbox.
C18_OneAtATime ==
  /\ Len(handlers) <= 1
  /\ \A i \in 1..Len(handlers) :
       LET h == handlers[i]
       IN  /\ h.pc = "installed" => mathRandom = h.rnd
           /\ h.pc \in {"generated", "encoded"} =>
                 /\ sound = h.own
                 /\ mathRandom = h.rnd
           /\ h.pc = "encoded" => h.seen = h.own
  /\ done.wrote =>
       /\ ~Empty(done.own)
       /\ files[done.filepath[1]] = <<done.own[1].wav>>

\* An invocation that has rendered a new sound and read it for encoding, not
\* yet written, while another request has arrived and waits.
C18_Witness ==
  /\ Len(handlers) = 1
  /\ handlers[1].pc = "encoded"
  /\ handlers[1].req.name \in {"generate_sound_effect", "randomize_sound"}
  /\ Len(inbox) > 0
  /\ done.name # "none"
  /\ ~Empty(done.own)
  /\ done.own # handlers[1].own

-----------------------------------------------------------------------------
\* The preset list.

\* The names list_presets returns.
ListedNames == {GetPresets[i] : i \in 1..Len(GetPresets)}

\* C21: list_presets returns exactly 7 entries in every session state and
\* changes nothing of the session (parameters, sound, random source; it writes
\* no file), and the names it returns are exactly the types
\* generate_sound_effect accepts: a request for a listed name never ends in
\* the unknown-type error, a request for any other name always does.
C21_ListPresets ==
  /\ call.name = "list_presets" =>
        /\ ~response.isError
        /\ response.presets = GetPresets
        /\ Len(response.presets) = 7
        /\ Cardinality({response.presets[i] : i \in 1..Len(response.presets)}) = 7
        /\ params = pre.params
        /\ sound = pre.sound
        /\ mathRandom = pre.mathRandom
        /\ ~trace.wrote
  /\ ListedNames = PresetTypes
  /\ \A t \in TypeInputs : t \in ListedNames <=> PresetRoutine(t) # "throw"
  /\ (call.name = "generate_sound_effect" /\ call.hasArgs) =>
        (call.type \in ListedNames <=> response.error # "Unknown sound type")

\* list_presets answered with its seven entries in a session that holds a
\* sound and written files.
C21_Witness ==
  /\ call.name = "list_presets"
  /\ ~Empty(sound)
  /\ Len(response.presets) = 7
  /\ response.presets[2] = "laser"
  /\ \E q \in Paths : files[q] # <<>>

====
